---- MODULE Spec2Model ----
(***************************************************************************)
(* A model of parse.py (the concurrent product harvester) and of the input *)
(* validation of script.py.                                                *)
(*                                                                         *)
(* Text is modelled as a sequence of one-character strings, so that the    *)
(* formatting done by convert_formula is computed character by character.  *)
(* Python's None is the model value None.  A call ends with a returned     *)
(* value or with the exception it raised.  The pages the site serves are   *)
(* modelled by what the xpath selectors of parse.py find in them; every    *)
(* cell that is found has a text and every link its href.                  *)
(*                                                                         *)
(* Three specifications: Spec (a whole harvest, the two worker pools       *)
(* included), SpecExtract (extract_product_data on one detail page) and    *)
(* SpecFormula (convert_formula on one string).                            *)
(***************************************************************************)
EXTENDS Integers, Sequences, FiniteSets, TLC

VARIABLES
    pc,              \* position of the running call
    formula_string,  \* convert_formula: its argument
    formula_out,     \* convert_formula: its return value
    page,            \* extract_product_data: the detail page behind its url
    outcome,         \* extract_product_data: what the call ended with
    url,             \* the harvest: the URL of the product list
    count,           \* the harvest: {} for None, {n} for the number n
    catalog,         \* the listing pages the site serves, page 1 first
    fetches,         \* the requests.get calls made so far, by kind of page
    last_page,       \* what get_last_page returned
    list_job,        \* the pool.map over the listing pages
    product_links,   \* what get_all_product_links returned
    detail_job,      \* the pool.map over the detail pages
    result           \* what get_product_data ended with

harvest_vars ==
    <<url, count, catalog, fetches, last_page, list_job, product_links,
      detail_job, result>>

vars == <<pc, formula_string, formula_out, page, outcome, harvest_vars>>

\* Python's None; no text equals it, a text being made of single characters
None == <<"None">>

(***************************************************************************)
(* Bounds of the model.                                                    *)
(***************************************************************************)
MaxLen == 4          \* longest formula string tried
MaxRows == 2         \* most rows of the `Product Detail` table of a page
MaxOffers == 2       \* most priced-offer rows of a page
MaxSpecRows == 1     \* most rows of the `Product Specification` table
MaxPages == 2        \* most listing pages of a catalog
MaxLinks == 2        \* most product rows of a listing page

(***************************************************************************)
(* Text helpers.                                                           *)
(***************************************************************************)
RECURSIVE Concat(_)
Concat(seqs) ==
    IF seqs = <<>> THEN <<>> ELSE Head(seqs) \o Concat(Tail(seqs))

SeqsUpTo(S, n) == UNION {[1..k -> S] : k \in 0..n}

(***************************************************************************)
(* convert_formula (parse.py 31-43).                                       *)
(***************************************************************************)
\* the character class [a-zA-Z]
Letters ==
    {"a","b","c","d","e","f","g","h","i","j","k","l","m","n","o","p","q","r",
     "s","t","u","v","w","x","y","z","A","B","C","D","E","F","G","H","I","J",
     "K","L","M","N","O","P","Q","R","S","T","U","V","W","X","Y","Z"}

\* the character class [0-9]
Digits == {"0","1","2","3","4","5","6","7","8","9"}

\* length of the longest prefix of s made of characters of class
RECURSIVE Run(_, _)
Run(s, class) ==
    IF s # <<>> /\ Head(s) \in class THEN 1 + Run(Tail(s), class) ELSE 0

\* MOLECULAR_FORMULA_RE.findall: the non-overlapping matches of
\* ([a-zA-Z]+)([0-9]*), scanning left to right; a character at which no
\* match starts is skipped.
RECURSIVE MOLECULAR_FORMULA_RE_findall(_)
MOLECULAR_FORMULA_RE_findall(s) ==
    IF s = <<>> THEN <<>>
    ELSE IF Head(s) \notin Letters
         THEN MOLECULAR_FORMULA_RE_findall(Tail(s))
         ELSE LET nl   == Run(s, Letters)
                  rest == SubSeq(s, nl + 1, Len(s))
                  nd   == Run(rest, Digits)
              IN  <<<<SubSeq(s, 1, nl), SubSeq(rest, 1, nd)>>>>
                  \o MOLECULAR_FORMULA_RE_findall(SubSeq(rest, nd + 1, Len(rest)))

SubOpen  == <<"<", "s", "u", "b", ">">>
SubClose == <<"<", "/", "s", "u", "b", ">">>

\* "%s<sub>%s</sub>" % item if len(item[1]) else item[0]
FormatItem(item) ==
    IF Len(item[2]) # 0
    THEN item[1] \o SubOpen \o item[2] \o SubClose
    ELSE item[1]

convert_formula(s) ==
    LET items == MOLECULAR_FORMULA_RE_findall(s)
    IN  Concat([i \in 1..Len(items) |-> FormatItem(items[i])])

(***************************************************************************)
(* Python values: a dict is a function on the keys it holds, a call ends   *)
(* with a returned value or a raised exception.                            *)
(***************************************************************************)
Put(d, k, v) == [x \in DOMAIN d \cup {k} |-> IF x = k THEN v ELSE d[x]]

EmptyDict == [x \in {} |-> None]

Return(v) == [ok |-> TRUE, value |-> v, error |-> ""]

Raise(e) == [ok |-> FALSE, value |-> <<>>, error |-> e]

\* the value of a decimal digit
DigitValue(c) ==
    CASE c = "0" -> 0 [] c = "1" -> 1 [] c = "2" -> 2 [] c = "3" -> 3
      [] c = "4" -> 4 [] c = "5" -> 5 [] c = "6" -> 6 [] c = "7" -> 7
      [] c = "8" -> 8 [] c = "9" -> 9

RECURSIVE DecimalValue(_)
DecimalValue(text) ==
    IF text = <<>> THEN 0
    ELSE 10 * DecimalValue(SubSeq(text, 1, Len(text) - 1))
         + DigitValue(text[Len(text)])

\* float(text) of a price: a run of digits is its number, any other text
\* raises ValueError
float(text) ==
    IF text # <<>> /\ \A i \in 1..Len(text) : text[i] \in Digits
    THEN Return(DecimalValue(text))
    ELSE Raise("ValueError")

\* text.split("; ")
RECURSIVE Split(_, _)
Split(text, piece) ==
    IF text = <<>> THEN <<piece>>
    ELSE IF Len(text) >= 2 /\ text[1] = ";" /\ text[2] = " "
         THEN <<piece>> \o Split(SubSeq(text, 3, Len(text)), <<>>)
         ELSE Split(Tail(text), Append(piece, Head(text)))

(***************************************************************************)
(* A detail page, as the selectors of extract_product_data see it:         *)
(*   ptables     the tables of class ptable, each the sequence of its      *)
(*               rows [label, value] that hold a ptdataleft cell           *)
(*   pricetables the tables of class pricetable, each the sequence of its  *)
(*               offers rows [size, price]                                 *)
(*   synonyms, msds, img  the matches of the three optional nodes: empty,  *)
(*               or the one text / href / src                              *)
(***************************************************************************)
Dash == <<"-">>

\* product['properties'][key] = value, creating the dict when needed
PutProperty(product, key, value) ==
    LET props == IF "properties" \in DOMAIN product
                 THEN product["properties"] ELSE EmptyDict
    IN  Put(product, "properties", Put(props, key, value))

\* a mutant of DetailRow: the placeholder test of the formula and of the
\* weight is forgotten
DetailRowNoPlaceholderTest(product, row) ==
    LET label == row.label
        value == row.value
    IN  IF label = "Glentham Code" THEN Put(product, "pid", value)
        ELSE IF label = "Product Name" THEN Put(product, "name", value)
        ELSE IF label = "CAS" THEN Put(product, "CAS", value)
        ELSE IF label = "Molecular Formula"
             THEN Put(product, "structure", convert_formula(value))
        ELSE IF label = "Molecular Weight"
             THEN PutProperty(product, "weight", value)
        ELSE product

\* one row of the `Product Detail` table (parse.py 66-80)
DetailRow(product, row) ==
    LET label == row.label
        value == row.value
    IN  IF label = "Glentham Code" THEN Put(product, "pid", value)
        ELSE IF label = "Product Name" THEN Put(product, "name", value)
        ELSE IF label = "CAS" THEN Put(product, "CAS", value)
        ELSE IF label = "Molecular Formula" /\ value # Dash
             THEN Put(product, "structure", convert_formula(value))
        ELSE IF label = "Molecular Weight" /\ value # Dash
             THEN PutProperty(product, "weight", value)
        ELSE product

RECURSIVE DetailRows(_, _)
DetailRows(product, rows) ==
    IF rows = <<>> THEN product
    ELSE DetailRows(DetailRow(product, Head(rows)), Tail(rows))

\* one row of the `Product Specification` table (parse.py 112-122)
SpecificationRow(product, row) ==
    IF row.label = "Purity" THEN PutProperty(product, "purity", row.value)
    ELSE IF row.label = "Melting Point"
         THEN PutProperty(product, "melting_point", row.value)
    ELSE product

RECURSIVE SpecificationRows(_, _)
SpecificationRows(product, rows) ==
    IF rows = <<>> THEN product
    ELSE SpecificationRows(SpecificationRow(product, Head(rows)), Tail(rows))

\* the loop over the offers (parse.py 84-88): the packaging after them, or
\* the exception of the first price that is no number
RECURSIVE Offers(_, _)
Offers(packaging, rows) ==
    IF rows = <<>> THEN Return(packaging)
    ELSE LET price == float(Head(rows).price)
         IN  IF ~price.ok THEN price
             ELSE Offers(Put(packaging, Head(rows).size, price.value),
                         Tail(rows))

Sentinel == <<"n", "e">>

\* a mutant of PackagingDefault: the default is never set
PackagingNoDefault(packaging) == packaging

\* parse.py 90-92
PackagingDefault(packaging) ==
    IF Cardinality(DOMAIN packaging) = 0
    THEN Put(packaging, Sentinel, 0)
    ELSE packaging

\* parse.py 46-124
extract_product_data(u, pg) ==
    LET product0 == [k \in {"pid", "name", "url", "packaging"} |->
                        CASE k = "pid" -> None
                          [] k = "name" -> None
                          [] k = "url" -> u
                          [] k = "packaging" -> EmptyDict]
    IN
    IF Len(pg.ptables) < 1 THEN Raise("IndexError")
    ELSE
    LET product1 == DetailRows(product0, pg.ptables[1])
    IN
    IF Len(pg.pricetables) < 1 THEN Raise("IndexError")
    ELSE
    LET packaging == Offers(product1["packaging"], pg.pricetables[1])
    IN
    IF ~packaging.ok THEN packaging
    ELSE
    LET product2 == Put(product1, "packaging", PackagingDefault(packaging.value))
        product3 == IF pg.synonyms # <<>>
                    THEN Put(product2, "synonyms", Split(pg.synonyms[1], <<>>))
                    ELSE product2
        product4 == IF pg.msds # <<>>
                    THEN Put(product3, "pdf_msds", pg.msds[1])
                    ELSE product3
        product5 == IF pg.img # <<>>
                    THEN Put(product4, "img", pg.img[1])
                    ELSE product4
    IN
    IF Len(pg.ptables) < 2 THEN Raise("IndexError")
    ELSE Return(SpecificationRows(product5, pg.ptables[2]))

(***************************************************************************)
(* multiprocessing.Pool.map: the tasks are handed to the workers in input  *)
(* order, at most PoolSize of them run at once and they end in any order.  *)
(* The result of task i is stored in slot i; once a task has failed the    *)
(* job keeps the first exception and drops the results that come later.    *)
(***************************************************************************)
\* multiprocessing.cpu_count() of the machine
cpu_count == 1

\* Pool(cpu_count() * 2)
PoolSize == cpu_count * 2

Unset == [ok |-> FALSE, value |-> <<>>, error |-> "unset"]

Pending(slot) == slot.error = "unset"

NewJob(n) ==
    [n |-> n, next |-> 1, running |-> {},
     value |-> [i \in 1..n |-> Unset], left |-> n,
     success |-> TRUE, error |-> ""]

\* a mutant of SetSlot: the result takes the first free slot, which is the
\* order of arrival (imap_unordered)
SetSlotInArrivalOrder(value, i, out) ==
    LET free == CHOOSE k \in DOMAIN value :
                    /\ Pending(value[k])
                    /\ \A j \in 1..(k - 1) : ~Pending(value[j])
    IN  [value EXCEPT ![free] = out]

\* self._value[i] = result
SetSlot(value, i, out) == [value EXCEPT ![i] = out]

\* a worker takes the next task of the queue
JobStart(job) ==
    [job EXCEPT !.next = @ + 1, !.running = @ \cup {job.next}]

\* MapResult._set: task i ended with out
JobSet(job, i, out) ==
    LET ended == [job EXCEPT !.running = @ \ {i}, !.left = @ - 1]
    IN  IF out.ok /\ job.success
        THEN [ended EXCEPT !.value = SetSlot(@, i, out)]
        ELSE IF ~out.ok /\ job.success
             THEN [ended EXCEPT !.success = FALSE, !.error = out.error]
             ELSE ended

\* a mutant of JobReady: map returns with the first result (map_async)
JobReadyEarly(job) == job.left < job.n \/ job.n = 0

\* map blocks until the job is ready: no task is left (or, where the first
\* failure ends the wait, a task has failed)
JobReady(job) == job.left = 0 \/ ~job.success

CanStart(job) ==
    job.next <= job.n /\ Cardinality(job.running) < PoolSize

\* what map returns when every task went well: the results in slot order
JobValues(job) == [i \in 1..job.n |-> job.value[i].value]

(***************************************************************************)
(* The catalog and get_last_page, get_list_page_product_links,             *)
(* get_all_product_links, get_product_data (parse.py 127-198).             *)
(***************************************************************************)
Min(a, b) == IF a <= b THEN a ELSE b

Max(a, b) == IF a >= b THEN a ELSE b

\* int(math.ceil(n / d)) for d > 0
CeilDiv(n, d) == -((-n) \div d)

\* needle in text
Contains(text, needle) ==
    \E i \in 0..(Len(text) - Len(needle)) :
        SubSeq(text, i + 1, i + Len(needle)) = needle

\* seq[:count]
Slice(seq, cnt) ==
    IF cnt = {} THEN seq
    ELSE LET n == CHOOSE n \in cnt : TRUE
         IN  IF n >= 0 THEN SubSeq(seq, 1, Min(n, Len(seq)))
             ELSE SubSeq(seq, 1, Max(Len(seq) + n, 0))

\* parse.py 141-148, M being the number read from the navigation widget
get_last_page(u, cnt, M) ==
    IF cnt = {} THEN M
    ELSE LET n == CHOOSE n \in cnt : TRUE
             products_per_page ==
                 IF Contains(u, <<"1", "0", "0">>) THEN 100 ELSE 50
         IN  Min(CeilDiv(n, products_per_page), M)

\* "%s?page=%d" % (url, number)
ListUrl(u, number) == <<"list", number>>

\* urljoin(url, href): the product that row j of listing page p links to
ProductUrl(listing, href) == <<"product", listing[2], href>>

\* A listing page as the selectors see it: tables, the tables of class
\* prodtable, each the sequence of its rows that hold a borderbtmfine cell;
\* a row is the sequence of the hrefs of its div/a links.
\* parse.py 158-162: the rows of the first table, none when there is no
\* table; a row without a link raises AttributeError
get_list_page_product_links(listing, pg) ==
    LET rows == IF pg.tables = <<>> THEN <<>> ELSE pg.tables[1]
    IN  IF \E i \in 1..Len(rows) : rows[i] = <<>>
        THEN Raise("AttributeError")
        ELSE Return([i \in 1..Len(rows) |-> ProductUrl(listing, rows[i][1])])

\* list(itertools.chain(*results))[:count]
FlattenAndCut(results, cnt) == Slice(Concat(results), cnt)

(***************************************************************************)
(* Specification of extract_product_data alone: it is applied to one       *)
(* detail page drawn from DetailPages.                                     *)
(***************************************************************************)
SomeText == <<"H", "2">>

DetailLabels ==
    {"Glentham Code", "Product Name", "CAS", "Molecular Formula",
     "Molecular Weight", "Appearance"}

SpecificationLabels == {"Purity", "Melting Point", "Storage"}

Values == {Dash, SomeText}

DetailTables ==
    SeqsUpTo([label : DetailLabels, value : Values], MaxRows)

SpecificationTables ==
    SeqsUpTo([label : SpecificationLabels, value : Values], MaxSpecRows)

OfferTables ==
    SeqsUpTo([size : {<<"1", "g">>, <<"5", "g">>},
              price : {<<"5">>, <<"1", "2">>, <<"P", "O", "A">>}], MaxOffers)

SynonymsText == <<"a", ";", " ", "b">>

Href == <<"f", ".", "p", "d", "f">>

Src == <<"i", ".", "p", "n", "g">>

\* a well-formed page that names the product and nothing else
PlainTable == <<[label |-> "Glentham Code", value |-> <<"G", "1">>]>>

\* pages whose two main tables vary
LabelledPages ==
    {[ptables |-> <<t1, t2>>, pricetables |-> <<<<>>>>,
      synonyms |-> <<>>, msds |-> <<>>, img |-> <<>>] :
        t1 \in DetailTables, t2 \in SpecificationTables}

\* pages whose structure, offers and optional nodes vary
StructuredPages ==
    {[ptables |-> pt, pricetables |-> prt,
      synonyms |-> syn, msds |-> ms, img |-> im] :
        pt \in {<<>>, <<PlainTable>>, <<PlainTable, <<>>>>},
        prt \in {<<>>} \cup {<<o>> : o \in OfferTables},
        syn \in {<<>>, <<SynonymsText>>},
        ms \in {<<>>, <<Href>>},
        im \in {<<>>, <<Src>>}}

DetailPages == LabelledPages \cup StructuredPages

DetailUrl == <<"detail", 1, 1>>

NoPage == <<>>

NoFetches == [root |-> 0, list |-> 0, detail |-> 0]

ExtractIdle == page = NoPage /\ outcome = None

FormulaIdle == formula_string = <<>> /\ formula_out = None

HarvestIdle ==
    /\ url = <<>>
    /\ count = {}
    /\ catalog = <<>>
    /\ fetches = NoFetches
    /\ last_page = 0
    /\ list_job = NewJob(0)
    /\ product_links = <<>>
    /\ detail_job = NewJob(0)
    /\ result = None

ExtractInit ==
    /\ pc = "extract"
    /\ page \in DetailPages
    /\ outcome = None
    /\ FormulaIdle
    /\ HarvestIdle

ExtractProductData ==
    /\ pc = "extract"
    /\ outcome' = extract_product_data(DetailUrl, page)
    /\ pc' = "extract_done"
    /\ UNCHANGED <<formula_string, formula_out, page, harvest_vars>>

ExtractNext == ExtractProductData

SpecExtract == ExtractInit /\ [][ExtractNext]_vars

(***************************************************************************)
(* Specification of convert_formula alone: any string over FormulaChars    *)
(* of length up to MaxLen is converted.                                    *)
(***************************************************************************)
FormulaChars == {"C", "l", "2", "6", "("}

FormulaInit ==
    /\ pc = "formula"
    /\ formula_string \in SeqsUpTo(FormulaChars, MaxLen)
    /\ formula_out = None
    /\ ExtractIdle
    /\ HarvestIdle

ConvertFormula ==
    /\ pc = "formula"
    /\ formula_out' = convert_formula(formula_string)
    /\ pc' = "formula_done"
    /\ UNCHANGED <<formula_string, page, outcome, harvest_vars>>

FormulaNext == ConvertFormula

SpecFormula == FormulaInit /\ [][FormulaNext]_vars

(***************************************************************************)
(* The harvest: the sample script's main ("main"), or a call of the        *)
(* library function get_product_data(url, count) ("call"), on a catalog of *)
(* up to MaxPages listing pages of up to MaxLinks products each.           *)
(***************************************************************************)
\* the listing pages a site may serve: no product table, a table of r rows
\* that link to their products, a table whose row holds no link
ListingPages ==
    {[tables |-> <<>>]}
    \cup {[tables |-> <<[j \in 1..r |-> <<j>>]>>] : r \in 0..MaxLinks}
    \cup {[tables |-> << <<<<>>>> >>]}

Catalogs == UNION {[1..m -> ListingPages] : m \in 1..MaxPages}

Urls == {<<"s", "/", "5", "0">>, <<"s", "/", "1", "0", "0">>}

Counts == {{}} \cup {{n} : n \in {-1, 0, 1, 3, 51, 101}}

\* the detail pages a site may serve during a harvest: a well-formed one,
\* one without the `Product Specification` table, one without price table
GoodPage ==
    [ptables |-> <<PlainTable, <<>>>>, pricetables |-> <<<<>>>>,
     synonyms |-> <<>>, msds |-> <<>>, img |-> <<>>]

SitePages ==
    {GoodPage,
     [GoodPage EXCEPT !.ptables = <<PlainTable>>],
     [GoodPage EXCEPT !.pricetables = <<>>]}

HarvestInit ==
    /\ pc \in {"main", "call"}
    /\ url \in Urls
    /\ count \in Counts
    /\ catalog \in Catalogs
    /\ fetches = NoFetches
    /\ last_page = 0
    /\ list_job = NewJob(0)
    /\ product_links = <<>>
    /\ detail_job = NewJob(0)
    /\ result = None
    /\ FormulaIdle
    /\ ExtractIdle

pure_vars == <<formula_string, formula_out, page, outcome>>

\* script.py 51-55: a count that is given and not positive ends the script
\* with an error message and sys.exit(1)
main ==
    /\ pc = "main"
    /\ pc' = IF count # {} /\ (CHOOSE n \in count : TRUE) <= 0
             THEN "exit" ELSE "validated"
    /\ UNCHANGED <<pure_vars, harvest_vars>>

\* script.py 66 calls parse.get_products(args.url, args.count), which
\* parse.py does not define: it is taken to be the harvest
get_products ==
    /\ pc = "validated"
    /\ pc' = "call"
    /\ UNCHANGED <<pure_vars, harvest_vars>>

\* get_product_data calls get_all_product_links, which calls get_last_page:
\* the list URL is fetched and the navigation widget read (parse.py 137-139,
\* IndexError when it is missing); the listing pages 1..last_page are then
\* handed to a pool (parse.py 175-178)
GetLastPage ==
    /\ pc = "call"
    /\ fetches' = [fetches EXCEPT !.root = @ + 1]
    /\ \E widget \in BOOLEAN :
        IF widget
        THEN LET last == get_last_page(url, count, Len(catalog))
             IN  /\ last_page' = last
                 /\ list_job' = NewJob(Max(last, 0))
                 /\ pc' = "listing"
                 /\ UNCHANGED result
        ELSE /\ result' = Raise("IndexError")
             /\ pc' = "raised"
             /\ UNCHANGED <<last_page, list_job>>
    /\ UNCHANGED <<pure_vars, url, count, catalog, product_links, detail_job>>

ListStart ==
    /\ pc = "listing"
    /\ CanStart(list_job)
    /\ list_job' = JobStart(list_job)
    /\ UNCHANGED <<pc, pure_vars, url, count, catalog, fetches, last_page,
                   product_links, detail_job, result>>

\* a worker ends get_list_page_product_links on its listing page
ListFinish ==
    /\ pc = "listing"
    /\ \E i \in list_job.running :
        list_job' = JobSet(list_job, i,
            get_list_page_product_links(ListUrl(url, i), catalog[i]))
    /\ fetches' = [fetches EXCEPT !.list = @ + 1]
    /\ UNCHANGED <<pc, pure_vars, url, count, catalog, last_page,
                   product_links, detail_job, result>>

\* parse.py 178-181 and 194-195: map returns the lists of links, which are
\* flattened and cut to count, and the links are handed to a second pool
ListReturn ==
    /\ pc = "listing"
    /\ JobReady(list_job)
    /\ list_job.success
    /\ LET links == FlattenAndCut(JobValues(list_job), count)
       IN  /\ product_links' = links
           /\ detail_job' = NewJob(Len(links))
    /\ pc' = "detail"
    /\ UNCHANGED <<pure_vars, url, count, catalog, fetches, last_page,
                   list_job, result>>

\* map raises the exception of a listing page, which no caller handles
ListRaise ==
    /\ pc = "listing"
    /\ JobReady(list_job)
    /\ ~list_job.success
    /\ result' = Raise(list_job.error)
    /\ pc' = "raised"
    /\ UNCHANGED <<pure_vars, url, count, catalog, fetches, last_page,
                   list_job, product_links, detail_job>>

DetailStart ==
    /\ pc = "detail"
    /\ CanStart(detail_job)
    /\ detail_job' = JobStart(detail_job)
    /\ UNCHANGED <<pc, pure_vars, url, count, catalog, fetches, last_page,
                   list_job, product_links, result>>

\* a worker ends extract_product_data on the page its URL serves
DetailFinish ==
    /\ pc = "detail"
    /\ \E i \in detail_job.running, pg \in SitePages :
        detail_job' = JobSet(detail_job, i,
            extract_product_data(product_links[i], pg))
    /\ fetches' = [fetches EXCEPT !.detail = @ + 1]
    /\ UNCHANGED <<pc, pure_vars, url, count, catalog, last_page, list_job,
                   product_links, result>>

\* parse.py 195-198: map returns the records
DetailReturn ==
    /\ pc = "detail"
    /\ JobReady(detail_job)
    /\ detail_job.success
    /\ result' = Return(JobValues(detail_job))
    /\ pc' = "returned"
    /\ UNCHANGED <<pure_vars, url, count, catalog, fetches, last_page,
                   list_job, product_links, detail_job>>

\* map raises the exception of a detail page, which no caller handles
DetailRaise ==
    /\ pc = "detail"
    /\ JobReady(detail_job)
    /\ ~detail_job.success
    /\ result' = Raise(detail_job.error)
    /\ pc' = "raised"
    /\ UNCHANGED <<pure_vars, url, count, catalog, fetches, last_page,
                   list_job, product_links, detail_job>>

Next ==
    \/ main
    \/ get_products
    \/ GetLastPage
    \/ ListStart
    \/ ListFinish
    \/ ListReturn
    \/ ListRaise
    \/ DetailStart
    \/ DetailFinish
    \/ DetailReturn
    \/ DetailRaise

Init == HarvestInit

Spec == Init /\ [][Next]_vars

(***************************************************************************)
(* Properties of convert_formula (SpecFormula).                            *)
(***************************************************************************)
IsPrefix(p, s) == Len(p) <= Len(s) /\ SubSeq(s, 1, Len(p)) = p

\* text.replace("<sub>", "").replace("</sub>", "") of a converted formula
RECURSIVE StripTags(_)
StripTags(s) ==
    IF s = <<>> THEN <<>>
    ELSE IF IsPrefix(SubOpen, s) THEN StripTags(SubSeq(s, 6, Len(s)))
    ELSE IF IsPrefix(SubClose, s) THEN StripTags(SubSeq(s, 7, Len(s)))
    ELSE <<Head(s)>> \o StripTags(Tail(s))

\* out is letters and tagged digit runs only: each <sub> comes right after a
\* letter, holds at least one digit and nothing but digits, and is closed
RECURSIVE WellTagged(_, _, _)
WellTagged(out, state, n) ==
    IF out = <<>> THEN state \in {"start", "letter", "closed"}
    ELSE IF state = "inside"
         THEN IF Head(out) \in Digits
              THEN WellTagged(Tail(out), "inside", n + 1)
              ELSE /\ n > 0
                   /\ IsPrefix(SubClose, out)
                   /\ WellTagged(SubSeq(out, 7, Len(out)), "closed", 0)
         ELSE IF Head(out) \in Letters
              THEN WellTagged(Tail(out), "letter", 0)
              ELSE /\ state = "letter"
                   /\ IsPrefix(SubOpen, out)
                   /\ WellTagged(SubSeq(out, 6, Len(out)), "inside", 0)

OnlyLetters(s) == \A i \in 1..Len(s) : s[i] \in Letters

\* C9: the output is the tokens, letters bare and digits tagged; a string of
\* letters only comes back unchanged; and for any input, removing the tags
\* from the output gives back the input
C9_StripGivesBackInput ==
    pc = "formula_done" =>
        /\ WellTagged(formula_out, "start", 0)
        /\ OnlyLetters(formula_string) => formula_out = formula_string
        /\ StripTags(formula_out) = formula_string

(***************************************************************************)
(* Properties of extract_product_data (SpecExtract).                       *)
(***************************************************************************)
Returned == pc = "extract_done" /\ outcome.ok

HasRow(table, label) == \E i \in 1..Len(table) : table[i].label = label

HasUsableRow(table, label) ==
    \E i \in 1..Len(table) : table[i].label = label /\ table[i].value # Dash

\* the value of the last row of the table with the label
LastValue(table, label) ==
    LET i == CHOOSE i \in 1..Len(table) :
                 /\ table[i].label = label
                 /\ \A j \in (i + 1)..Len(table) : table[j].label # label
    IN  table[i].value

HasProperty(record, key) ==
    "properties" \in DOMAIN record /\ key \in DOMAIN record["properties"]

\* the size -> price pairs of the offers, a later offer of a size replacing
\* an earlier one
OfferSizes(offers) == {offers[i].size : i \in 1..Len(offers)}

LastPrice(offers, size) ==
    LET i == CHOOSE i \in 1..Len(offers) :
                 /\ offers[i].size = size
                 /\ \A j \in (i + 1)..Len(offers) : offers[j].size # size
    IN  float(offers[i].price).value

\* C5: every returned record has a non-empty packaging: the pairs of the
\* priced-offer rows when there are some, exactly {"ne": 0.0} when none
C5_PackagingNeverEmpty ==
    Returned =>
        LET packaging == outcome.value["packaging"]
            offers    == page.pricetables[1]
        IN  /\ DOMAIN packaging # {}
            /\ offers = <<>> =>
                   /\ DOMAIN packaging = {Sentinel}
                   /\ packaging[Sentinel] = 0
            /\ offers # <<>> =>
                   /\ DOMAIN packaging = OfferSizes(offers)
                   /\ \A size \in DOMAIN packaging :
                          packaging[size] = LastPrice(offers, size)

C5_Witness ==
    /\ Returned
    /\ page.pricetables[1] = <<>>
    /\ outcome.value["packaging"] = Put(EmptyDict, Sentinel, 0)

\* the optional keys read from a labelled row of the first table
RowSource ==
    [k \in {"pid", "name", "CAS", "structure"} |->
        CASE k = "pid" -> "Glentham Code"
          [] k = "name" -> "Product Name"
          [] k = "CAS" -> "CAS"
          [] k = "structure" -> "Molecular Formula"]

OptionalNodesAbsentWhenMissing(record) ==
    /\ "synonyms" \in DOMAIN record => page.synonyms # <<>>
    /\ "pdf_msds" \in DOMAIN record => page.msds # <<>>
    /\ "img" \in DOMAIN record => page.img # <<>>

\* C7 as stated: url is the input, and every other key but packaging is in
\* the record only if its row or node was on the page with a value other
\* than the placeholder "-"
C7_KeysOnlyFromUsableSources ==
    Returned =>
        LET record == outcome.value
            detail == page.ptables[1]
            specification == page.ptables[2]
        IN  /\ record["url"] = DetailUrl
            /\ \A k \in DOMAIN RowSource :
                   k \in DOMAIN record => HasUsableRow(detail, RowSource[k])
            /\ HasProperty(record, "weight") =>
                   HasUsableRow(detail, "Molecular Weight")
            /\ HasProperty(record, "purity") =>
                   HasUsableRow(specification, "Purity")
            /\ HasProperty(record, "melting_point") =>
                   HasUsableRow(specification, "Melting Point")
            /\ OptionalNodesAbsentWhenMissing(record)

\* C7 amended: url is the input; pid and name are always in the record,
\* None when their row is missing and else the row's value as it stands;
\* CAS, purity and melting_point are in the record only if their row was on
\* the page (the placeholder is copied like any value); structure and
\* weight only if their row was there with a value other than "-";
\* synonyms, pdf_msds and img only if their node was there
C7_KeysOnlyFromSources ==
    Returned =>
        LET record == outcome.value
            detail == page.ptables[1]
            specification == page.ptables[2]
        IN  /\ record["url"] = DetailUrl
            /\ \A k \in {"pid", "name"} :
                   /\ k \in DOMAIN record
                   /\ record[k] = IF HasRow(detail, RowSource[k])
                                  THEN LastValue(detail, RowSource[k])
                                  ELSE None
            /\ "CAS" \in DOMAIN record => HasRow(detail, "CAS")
            /\ "structure" \in DOMAIN record =>
                   HasUsableRow(detail, "Molecular Formula")
            /\ HasProperty(record, "weight") =>
                   HasUsableRow(detail, "Molecular Weight")
            /\ HasProperty(record, "purity") =>
                   HasRow(specification, "Purity")
            /\ HasProperty(record, "melting_point") =>
                   HasRow(specification, "Melting Point")
            /\ "properties" \in DOMAIN record =>
                   DOMAIN record["properties"] # {}
            /\ OptionalNodesAbsentWhenMissing(record)

C7_Witness ==
    /\ Returned
    /\ outcome.value["pid"] = None
    /\ HasRow(page.ptables[1], "Molecular Formula")
    /\ "structure" \notin DOMAIN outcome.value
    /\ "CAS" \in DOMAIN outcome.value
    /\ outcome.value["CAS"] = Dash

(***************************************************************************)
(* Properties of the harvest (Spec).                                       *)
(***************************************************************************)
Cap == CHOOSE n \in count : TRUE

\* the product URLs of listing page p, in page order, read off the catalog
PageLinks(p) ==
    IF catalog[p].tables = <<>> THEN <<>>
    ELSE LET rows == catalog[p].tables[1]
         IN  [j \in 1..Len(rows) |-> <<"product", p, j>>]

\* the URLs of pages 1..m: page p before page p + 1
RECURSIVE Discovered(_)
Discovered(m) ==
    IF m <= 0 THEN <<>> ELSE Discovered(m - 1) \o PageLinks(m)

total_catalog_size == Len(Discovered(Len(catalog)))

Planned == pc \in {"listing", "detail", "returned"}

\* every listing page has a table of r product rows
Uniform(r) ==
    \A p \in 1..Len(catalog) :
        catalog[p].tables # <<>> /\ Len(catalog[p].tables[1]) = r

\* every listing page has its product table and every row its link: no
\* extraction of a listing page can fail
WellFormed ==
    \A p \in 1..Len(catalog) :
        /\ catalog[p].tables # <<>>
        /\ \A j \in 1..Len(catalog[p].tables[1]) :
               catalog[p].tables[1][j] # <<>>

\* C1: when every fetch and extraction succeeds, get_product_data returns
\* min(cap, total catalog size) records with a positive cap, and as many
\* records as the catalog has rows without a cap
C1_RecordCount ==
    (pc = "returned" /\ WellFormed /\ (count = {} \/ Cap > 0)) =>
        Len(result.value) = IF count = {} THEN total_catalog_size
                            ELSE Min(Cap, total_catalog_size)

\* C2: the record at position i is the one of the i-th URL of the flattened
\* sequence, page p before page p + 1 and the order within a page kept
C2_DiscoveryOrder ==
    pc = "returned" =>
        LET records == result.value
            urls    == Discovered(last_page)
        IN  /\ Len(records) <= Len(urls)
            /\ \A i \in 1..Len(records) : records[i]["url"] = urls[i]

C2_Witness ==
    /\ pc = "returned"
    /\ Len(result.value) = 4
    /\ result.value[3]["url"] = <<"product", 2, 1>>

\* C3: get_last_page returns M without a cap and min(ceil(cap / page size),
\* M) with one, the page size being the number of items the catalog puts on
\* a page; it never exceeds M, and the pages up to it hold at least
\* min(cap, total catalog size) product URLs
C3_EnoughPages ==
    (Planned /\ WellFormed /\ (count = {} \/ Cap > 0)) =>
        /\ last_page <= Len(catalog)
        /\ count = {} => last_page = Len(catalog)
        /\ count # {} =>
               /\ \A r \in 1..MaxLinks :
                      Uniform(r) =>
                          last_page = Min(CeilDiv(Cap, r), Len(catalog))
               /\ Len(Discovered(last_page)) >= Min(Cap, total_catalog_size)

\* C4: a harvest asked for with a cap that is not positive fetches nothing
C4_NoFetchOnBadCap ==
    (count # {} /\ Cap <= 0) => fetches = NoFetches

\* C6: a detail page without a required table does not make
\* get_product_data raise
C6_DetailFailureConfined ==
    ~(pc = "raised" /\ ~detail_job.success)

\* C8: a listing page with a product table of zero rows gives an empty
\* sequence of URLs and no error, a listing page without product table an
\* error: no task on a page without table returns a sequence
C8_MissingTableIsAnError ==
    \A i \in 1..list_job.n :
        ~Pending(list_job.value[i]) =>
            /\ list_job.value[i].ok
            /\ catalog[i].tables = <<<<>>>> => list_job.value[i].value = <<>>
            /\ catalog[i].tables # <<>>

\* C10: no detail task starts before every listing task has ended and the
\* flattened URLs were cut to the cap
C10_PhasesDoNotOverlap ==
    detail_job.next > 1 =>
        /\ list_job.left = 0
        /\ list_job.running = {}
        /\ list_job.next = list_job.n + 1
        /\ fetches.list = list_job.n
        /\ product_links = Slice(Discovered(last_page), count)

C10_Witness ==
    /\ pc = "detail"
    /\ detail_job.running = {1, 2}
    /\ list_job.n = 2
    /\ Len(product_links) = 4

====
